---- MODULE Spec2Model ----
(***************************************************************************)
(* A model of the simulation engine of system-design-studio                *)
(* (src/core/simulator.ts): the lifecycle state machine driven by the      *)
(* host's control calls and by the window's interval timer, and the tick   *)
(* processor (request generation, hop-by-hop routing, node processing,     *)
(* metrics, auto-scaling, chaos, snapshots).                               *)
(*                                                                         *)
(* Numbers that the code keeps as IEEE doubles are kept here as exact      *)
(* fractions <<n, d>> with d > 0, reduced by their gcd.  Math.random() is  *)
(* a nondeterministic choice over the outcomes its use can produce.        *)
(***************************************************************************)
EXTENDS Integers, Sequences, FiniteSets, TLC

\* ------------------------------------------------------------------------
\* Bounds of the model
\* ------------------------------------------------------------------------
MaxTime == 2000
MaxEvents == 8
MaxControlEvents == 4
MaxRequests == 2
MaxTimers == 2
\* The bounds of the runs under sustained load, which need ten ticks and
\* more of one request each to take a service to its cap of instances
MaxLoadTime == 144
MaxLoadEvents == 32
MaxLoadRequests == 11
MaxLoadControlEvents == 1

\* ------------------------------------------------------------------------
\* Enumerations
\* ------------------------------------------------------------------------
IDLE == "idle"
RUNNING == "running"
PAUSED == "paused"
STOPPED == "stopped"
COMPLETED == "completed"
SimulationStatus == {IDLE, RUNNING, PAUSED, STOPPED, COMPLETED}

CLIENT == "client"
SERVICE == "service"
DATABASE == "database"
CACHE == "cache"
QUEUE == "queue"
LOAD_BALANCER == "loadBalancer"

REQUEST_SENT == "request_sent"
REQUEST_PROCESSED == "request_processed"
REQUEST_FAILED == "request_failed"
CACHE_HIT == "cache_hit"
CACHE_MISS == "cache_miss"
DB_QUERY == "db_query"
QUEUE_ENQUEUE == "queue_enqueue"
BACKLOG_WARNING == "backlog_warning"
NODE_SCALED == "node_scaled"
NODE_OVERLOAD == "node_overload"

\* JavaScript's null (intervalId, no next hop) and undefined (an optional
\* field left out: the empty tuple, a present value v being <<v>>)
Null == 0
NoHop == ""
Undefined == <<>>

\* ------------------------------------------------------------------------
\* Exact fractions standing for the code's doubles
\* ------------------------------------------------------------------------
Abs(x) == IF x < 0 THEN -x ELSE x

RECURSIVE GCD(_, _)
GCD(a, b) == IF b = 0 THEN a ELSE GCD(b, a % b)

\* n/d in lowest terms with a positive denominator
Rat(n, d) ==
    LET g == GCD(Abs(n), Abs(d))
        s == IF d < 0 THEN -1 ELSE 1
    IN  <<(s * n) \div g, (s * d) \div g>>

RatInt(n) == <<n, 1>>
RatMul(p, q) == Rat(p[1] * q[1], p[2] * q[2])
RatLess(p, q) == p[1] * q[2] < q[1] * p[2]
\* Math.min left out: the first argument as it is
RatFirst(p, q) == p

RatMin(p, q) == IF RatLess(q, p) THEN q ELSE p

\* ------------------------------------------------------------------------
\* Sequence helpers (Array.prototype.filter / includes / find)
\* ------------------------------------------------------------------------
Includes(s, x) == \E i \in 1..Len(s) : s[i] = x

Range(s) == {s[i] : i \in 1..Len(s)}

RECURSIVE SumOver(_, _)
SumOver(f, S) ==
    IF S = {} THEN 0
    ELSE LET x == CHOOSE y \in S : TRUE IN f[x] + SumOver(f, S \ {x})

\* ------------------------------------------------------------------------
\* Configuration and graphs the engine is constructed with
\* ------------------------------------------------------------------------
\* The latency matrix: keys are "<source>→<target>" strings, kept as pairs.
DefaultNetwork ==
    {<<<<"Client", "Gateway">>, 10>>, <<<<"Gateway", "Service">>, 8>>,
     <<<<"Service", "DB">>, 12>>, <<<<"Service", "Cache">>, 5>>,
     <<<<"Service", "Queue">>, 7>>}

DEFAULT_SIMULATION_CONFIG ==
    [requestsPerSecond |-> 100, concurrentUsers |-> 50, payloadSize |-> 10,
     errorRate |-> <<1, 100>>, messageQueueDepth |-> 100,
     cacheHitRatio |-> <<17, 20>>, dbLatency |-> 40, serviceCpuCost |-> 8,
     network |-> DefaultNetwork, autoScaling |-> TRUE,
     failureInjection |-> FALSE, consistencyMode |-> "eventual",
     chaosMode |-> FALSE, duration |-> 30, tickRate |-> 100]

\* Configurations of the model: the defaults, slowed down to few, long ticks
\* and a low request rate so that a run has a handful of requests.
BaseConfig ==
    [DEFAULT_SIMULATION_CONFIG EXCEPT
        !.requestsPerSecond = 1, !.tickRate = 500, !.duration = 1,
        !.errorRate = <<0, 1>>]

\* Half of the requests fail where they arrive
LossyConfig ==
    [BaseConfig EXCEPT !.errorRate = <<1, 2>>, !.autoScaling = FALSE,
                       !.cacheHitRatio = <<1, 1>>, !.duration = 2]

\* The hop from the client to a cache takes longer than one tick
SlowNetwork == DefaultNetwork \cup {<<<<CLIENT, CACHE>>, 600>>}

LongConfig == [BaseConfig EXCEPT !.duration = 2, !.network = SlowNetwork]

\* No traffic, chaos on
ChaosConfig == [BaseConfig EXCEPT !.requestsPerSecond = 0, !.chaosMode = TRUE]

\* The latency matrix with an entry of 0 ms for the key the engine builds
\* for a hop from a client to a service
ZeroNetwork == DefaultNetwork \cup {<<<<CLIENT, SERVICE>>, 0>>}

\* Two requests in the one tick of the run
BurstConfig ==
    [BaseConfig EXCEPT !.requestsPerSecond = 2, !.tickRate = 1000,
                       !.network = ZeroNetwork]

\* Ticks that do not divide the second
OddTickConfig == [BaseConfig EXCEPT !.tickRate = 400]

\* Traffic and chaos
NoisyConfig == [BaseConfig EXCEPT !.chaosMode = TRUE]

\* No traffic, no chaos
QuietConfig == [BaseConfig EXCEPT !.requestsPerSecond = 0]

\* The defaults with one request in every tick of 100 ms and no failures
StoreConfig ==
    [DEFAULT_SIMULATION_CONFIG EXCEPT
        !.requestsPerSecond = 10, !.errorRate = <<0, 1>>, !.duration = 1]

\* The latency matrix with an entry for the key the engine builds for a hop
\* from a client to a service
LoadNetwork == DefaultNetwork \cup {<<<<CLIENT, SERVICE>>, 2>>}

\* One request in every tick of 10 ms, each reaching the service in the tick
\* it is sent in: the service sees 100 requests per second
ScaleUpConfig ==
    [DEFAULT_SIMULATION_CONFIG EXCEPT
        !.tickRate = 10, !.duration = 1, !.errorRate = <<0, 1>>,
        !.network = LoadNetwork]

\* One request in every tick of 10 ms, each reaching the queue in the tick
\* it is sent in, half of them failing at the queue, and a queue that is
\* near its capacity with two messages
QueueNetwork == DefaultNetwork \cup {<<<<CLIENT, QUEUE>>, 2>>}

QueueConfig ==
    [DEFAULT_SIMULATION_CONFIG EXCEPT
        !.tickRate = 10, !.duration = 1, !.errorRate = <<1, 2>>,
        !.messageQueueDepth = 2, !.network = QueueNetwork]

\* A request in some ticks of 12 ms only: the load on the service falls
ScaleDownConfig ==
    [ScaleUpConfig EXCEPT !.tickRate = 12, !.requestsPerSecond = 50]

\* Two requests in the one tick a run is followed for, each reaching its
\* service in that tick
TwinConfig == [ScaleUpConfig EXCEPT !.requestsPerSecond = 200]

Node(id, type) == [id |-> id, type |-> type]
Edge(s, t) == [source |-> s, target |-> t]

\* CLIENT -> SERVICE -> DATABASE
GraphLine ==
    [nodes |-> <<Node("c", CLIENT), Node("s", SERVICE), Node("d", DATABASE)>>,
     edges |-> <<Edge("c", "s"), Edge("s", "d")>>]

\* CLIENT -> A, A -> B, B -> A, and an edge to a node that is not in the graph
GraphCycle ==
    [nodes |-> <<Node("c", CLIENT), Node("a", CACHE), Node("b", QUEUE)>>,
     edges |-> <<Edge("c", "a"), Edge("a", "b"), Edge("b", "a"),
                 Edge("b", "x")>>]

\* A graph without a client
GraphNoClient ==
    [nodes |-> <<Node("s", SERVICE), Node("d", DATABASE)>>,
     edges |-> <<Edge("s", "d")>>]

\* A client with an edge to a node that is not in the graph, an edge to a
\* service and an edge to itself
GraphStray ==
    [nodes |-> <<Node("c", CLIENT), Node("s", SERVICE)>>,
     edges |-> <<Edge("c", "x"), Edge("c", "s"), Edge("c", "c")>>]

\* CLIENT -> SERVICE
GraphService ==
    [nodes |-> <<Node("c", CLIENT), Node("s", SERVICE)>>,
     edges |-> <<Edge("c", "s")>>]

\* CLIENT -> SERVICE, CLIENT -> another SERVICE
\* CLIENT -> QUEUE
GraphQueue ==
    [nodes |-> <<Node("c", CLIENT), Node("q", QUEUE)>>,
     edges |-> <<Edge("c", "q")>>]

GraphTwin ==
    [nodes |-> <<Node("c", CLIENT), Node("s", SERVICE), Node("t", SERVICE)>>,
     edges |-> <<Edge("c", "s"), Edge("c", "t")>>]

\* A client that nothing leaves
GraphIdle ==
    [nodes |-> <<Node("c", CLIENT), Node("s", SERVICE)>>,
     edges |-> <<Edge("s", "c")>>]

\* No node at all
GraphEmpty == [nodes |-> <<>>, edges |-> <<>>]

\* CLIENT -> DATABASE
GraphStore ==
    [nodes |-> <<Node("c", CLIENT), Node("d", DATABASE)>>,
     edges |-> <<Edge("c", "d")>>]

\* What the engine is constructed with
Scenarios ==
    {[graph |-> GraphLine, config |-> BaseConfig],
     [graph |-> GraphLine, config |-> LossyConfig],
     [graph |-> GraphCycle, config |-> LongConfig],
     [graph |-> GraphNoClient, config |-> ChaosConfig],
     [graph |-> GraphStray, config |-> BurstConfig],
     [graph |-> GraphTwin, config |-> TwinConfig],
     [graph |-> GraphEmpty, config |-> ChaosConfig],
     [graph |-> GraphIdle, config |-> BaseConfig],
     [graph |-> GraphService, config |-> NoisyConfig],
     [graph |-> GraphStore, config |-> StoreConfig],
     [graph |-> GraphQueue, config |-> QueueConfig],
     [graph |-> GraphNoClient, config |-> OddTickConfig],
     [graph |-> GraphService, config |-> ScaleUpConfig],
     [graph |-> GraphService, config |-> ScaleDownConfig]}

Speeds == {1, 2}

\* ------------------------------------------------------------------------
\* State
\* ------------------------------------------------------------------------
VARIABLES
    nodes,              \* this.nodes
    edges,              \* this.edges
    config,             \* this.state.config
    status,             \* this.state.status
    currentTime,        \* this.state.currentTime
    activeRequests,     \* this.state.activeRequests
    nodeMetrics,        \* this.state.nodeMetrics
    systemMetrics,      \* this.state.systemMetrics
    events,             \* this.state.events
    metricsHistory,     \* this.state.metricsHistory
    speed,              \* this.state.speed
    intervalId,         \* this.intervalId
    requestIdCounter,   \* this.requestIdCounter
    eventIdCounter,     \* this.eventIdCounter
    timers,             \* the window's active intervals
    staleCallback,      \* a callback of a cleared interval may still be run
    lastOp,             \* the operation that ran last
    eventListeners,     \* this.eventListeners, in the order of insertion
    received,           \* what each event listener was called with
    store               \* the host's store: engine, status, result, summary

engineVars ==
    <<status, currentTime, activeRequests, nodeMetrics, systemMetrics,
      events, metricsHistory, speed, intervalId, requestIdCounter,
      eventIdCounter>>

vars ==
    <<nodes, edges, config, status, currentTime, activeRequests, nodeMetrics,
      systemMetrics, events, metricsHistory, speed, intervalId,
      requestIdCounter, eventIdCounter, timers, staleCallback, lastOp,
      eventListeners, received, store>>

createEmptySystemMetrics ==
    [timestamp |-> 0, totalRequests |-> 0, successfulRequests |-> 0,
     failedRequests |-> 0, averageLatency |-> <<0, 1>>,
     requestsPerSecond |-> <<0, 1>>, errorRate |-> <<0, 1>>,
     totalQueueDepth |-> 0, activeRequests |-> 0, scalingActions |-> 0]

NodeIds(ns) == {ns[i].id : i \in 1..Len(ns)}

\* Array.prototype.find: the first node with that id, or undefined
UndefinedNode == [id |-> "undefined", type |-> "undefined"]

getNodeById(ns, nodeId) ==
    IF \E i \in 1..Len(ns) : ns[i].id = nodeId
    THEN ns[CHOOSE i \in 1..Len(ns) :
                /\ ns[i].id = nodeId
                /\ \A j \in 1..(i - 1) : ns[j].id # nodeId]
    ELSE UndefinedNode

initialNodeMetrics(ns, cfg) ==
    [id \in NodeIds(ns) |->
        LET node == getNodeById(ns, id) IN
        [nodeId |-> id, requestsPerSecond |-> <<0, 1>>,
         averageLatency |-> 0, successRate |-> <<1, 1>>,
         errorRate |-> <<0, 1>>, queueDepth |-> 0,
         cpuUtilization |-> <<0, 1>>, instances |-> 1, throughput |-> 0,
         cacheHitRate |-> IF node.type = CACHE THEN <<cfg.cacheHitRatio>>
                          ELSE Undefined,
         queryRate |-> IF node.type = DATABASE THEN <<0>> ELSE Undefined]]

\* ------------------------------------------------------------------------
\* The result of a run
\* ------------------------------------------------------------------------
WellMessage == "System is performing well under current load"
CriticalMessage == "Critical issues detected - immediate action required"
CacheMessage == "Consider adding a cache layer to reduce database load"
BalancerMessage == "Add a load balancer to distribute traffic evenly"

\* What analyzeBottlenecks finds at one node, in the order it looks
cpuIssue(m) ==
    IF RatLess(<<9, 10>>, m.cpuUtilization)
    THEN <<[issue |-> "CPU utilization critically high",
            severity |-> "critical"]>>
    ELSE IF RatLess(<<7, 10>>, m.cpuUtilization)
    THEN <<[issue |-> "CPU utilization high", severity |-> "medium"]>>
    ELSE <<>>

queueIssue(m) ==
    IF m.queueDepth * 10 > config.messageQueueDepth * 8
    THEN <<[issue |-> "Queue depth near capacity", severity |-> "high"]>>
    ELSE <<>>

errorIssue(m) ==
    IF RatLess(<<1, 10>>, m.errorRate)
    THEN <<[issue |-> "High error rate detected", severity |-> "critical"]>>
    ELSE <<>>

nodeIssues(m) == cpuIssue(m) \o queueIssue(m) \o errorIssue(m)

\* severity is overwritten by each issue found, the last one stands
bottleneckOf(nodeId, found) ==
    [nodeId |-> nodeId,
     severity |-> found[Len(found)].severity,
     issues |-> [i \in 1..Len(found) |-> found[i].issue]]

RECURSIVE bottleneckLoop(_, _)
bottleneckLoop(E, i) ==
    IF i > Len(nodes) THEN <<>>
    ELSE (IF nodeIssues(E.nodeMetrics[nodes[i].id]) = <<>> THEN <<>>
          ELSE <<bottleneckOf(nodes[i].id,
                              nodeIssues(E.nodeMetrics[nodes[i].id]))>>)
         \o bottleneckLoop(E, i + 1)

WithSeverity(bs, sev) == SelectSeq(bs, LAMBDA b : b.severity = sev)

\* Array.prototype.sort is stable: by severity, critical first
bySeverity(bs) ==
    WithSeverity(bs, "critical") \o WithSeverity(bs, "high")
        \o WithSeverity(bs, "medium") \o WithSeverity(bs, "low")

analyzeBottlenecks(E) == bySeverity(bottleneckLoop(E, 1))

HasType(type) == \E i \in 1..Len(nodes) : nodes[i].type = type

generateRecommendations(bottlenecks) ==
    (IF Len(bottlenecks) = 0 THEN <<WellMessage>> ELSE <<>>)
    \o (IF \E i \in 1..Len(bottlenecks) :
                bottlenecks[i].severity = "critical"
        THEN <<CriticalMessage>> ELSE <<>>)
    \o (IF ~HasType(CACHE) THEN <<CacheMessage>> ELSE <<>>)
    \o (IF ~HasType(LOAD_BALANCER) THEN <<BalancerMessage>> ELSE <<>>)

\* 0 / 0 is NaN, Math.max() of nothing is -Infinity
NaN == <<0, 0>>
NegInfinity == <<-1, 0>>

RECURSIVE peakOf(_)
peakOf(history) ==
    IF history = <<>> THEN NegInfinity
    ELSE IF Len(history) = 1 THEN history[1].system.requestsPerSecond
    ELSE IF RatLess(peakOf(Tail(history)),
                    history[1].system.requestsPerSecond)
         THEN history[1].system.requestsPerSecond
         ELSE peakOf(Tail(history))

getResult(E) ==
    [duration |-> Rat(E.currentTime, 1000),
     metricsHistory |-> E.metricsHistory,
     events |-> E.events,
     summary |->
        [totalRequests |-> E.systemMetrics.totalRequests,
         successRate |->
            IF E.systemMetrics.totalRequests = 0 THEN NaN
            ELSE Rat(E.systemMetrics.successfulRequests,
                     E.systemMetrics.totalRequests),
         averageLatency |-> E.systemMetrics.averageLatency,
         peakRPS |-> peakOf(E.metricsHistory),
         bottlenecks |-> analyzeBottlenecks(E),
         recommendations |->
            generateRecommendations(analyzeBottlenecks(E))]]

\* The listeners the host gives to onEvent before it starts the engine.  A
\* Recorder keeps the events it is called with; a StopOnPause keeps them too
\* and calls stop() from inside its callback when the event is 'Simulation
\* paused'.
Recorder == "recorder"
StopOnPause == "stopOnPause"
\* The listener initializeSimulation gives to onEvent: handleSimulationEvent
StoreListener == "store"

\* Listeners that call no method of the engine
PassiveListeners == <<Recorder>>

\* A listener that calls back into the engine, added before a passive one
ReentrantListeners == <<StopOnPause, Recorder>>

\* The store before any of its actions: no engine yet
InitialStore ==
    [engine |-> FALSE, status |-> IDLE, result |-> <<>>,
     showSummary |-> FALSE]

\* The engine after new SimulationEngine(nodes, edges, config) and the
\* host's onEvent calls
Constructed(scenarios, listeners) ==
    /\ \E sc \in scenarios :
            /\ nodes = sc.graph.nodes
            /\ edges = sc.graph.edges
            /\ config = sc.config
    /\ eventListeners = listeners
    /\ received = [i \in 1..Len(listeners) |-> <<>>]
    /\ store = InitialStore
    /\ status = IDLE
    /\ currentTime = 0
    /\ activeRequests = <<>>
    /\ nodeMetrics = initialNodeMetrics(nodes, config)
    /\ systemMetrics = createEmptySystemMetrics
    /\ events = <<>>
    /\ metricsHistory = <<>>
    /\ speed = 1
    /\ intervalId = Null
    /\ requestIdCounter = 0
    /\ eventIdCounter = 0
    /\ timers = {}
    /\ staleCallback = FALSE
    /\ lastOp = "new"

Init == Constructed(Scenarios, PassiveListeners)

\* ------------------------------------------------------------------------
\* The engine as a record, so that a handler's statements can be chained
\* ------------------------------------------------------------------------
Engine ==
    [status |-> status, currentTime |-> currentTime,
     activeRequests |-> activeRequests, nodeMetrics |-> nodeMetrics,
     systemMetrics |-> systemMetrics, events |-> events,
     metricsHistory |-> metricsHistory, speed |-> speed,
     intervalId |-> intervalId, requestIdCounter |-> requestIdCounter,
     eventIdCounter |-> eventIdCounter, timers |-> timers,
     staleCallback |-> staleCallback, received |-> received,
     store |-> store, threw |-> FALSE]

\* An event; message is the fixed words of the template, args the values
\* interpolated into it, pathOf the request whose path array sourcePath is
\* (-1 when sourcePath is an array of its own or absent).
Event(type, nodeId, sourcePath, pathOf, targetPath, message, args, severity) ==
    [type |-> type, nodeId |-> nodeId, sourcePath |-> sourcePath,
     pathOf |-> pathOf, targetPath |-> targetPath, message |-> message,
     args |-> args, severity |-> severity]

LifecycleEvent(word, severity) ==
    Event(REQUEST_SENT, "", <<>>, -1, <<>>, <<"Simulation", word>>, <<>>,
          severity)

\* event.message.includes('completed')
IncludesCompleted(event) ==
    \E w \in 1..Len(event.message) : event.message[w] = "completed"

\* What the store keeps of engine.getResult(): the duration and the summary
\* are the result's own values, while its events and metricsHistory are the
\* engine's arrays themselves; takenAt is the length of the event log at
\* the call
storedResult(E) ==
    [duration |-> getResult(E).duration, summary |-> getResult(E).summary,
     takenAt |-> Len(E.events)]

\* handleSimulationEvent, after the event was added to the store's events
handleSimulationEvent(E, event) ==
    IF /\ IncludesCompleted(event)
       /\ E.store.engine
       /\ E.store.status # COMPLETED
    THEN [E EXCEPT !.store.status = COMPLETED,
                   !.store.result = <<storedResult(E)>>,
                   !.store.showSummary = TRUE]
    ELSE E

\* The callback of the listener at index i, called with an event
RECURSIVE stop(_)
listener(E, i, event) ==
    IF /\ eventListeners[i] = StopOnPause
       /\ event.message = <<"Simulation", "paused">>
    THEN stop([E EXCEPT !.received[i] = Append(@, event.id)])
    ELSE IF eventListeners[i] = StoreListener
    THEN handleSimulationEvent(
            [E EXCEPT !.received[i] = Append(@, event.id)], event)
    ELSE [E EXCEPT !.received[i] = Append(@, event.id)]

\* this.eventListeners.forEach(listener => listener(event)), from index i
RECURSIVE notify(_, _, _)
notify(E, event, i) ==
    IF i > Len(eventListeners) THEN E
    ELSE notify(listener(E, i, event), event, i + 1)

\* this.state.events.push(event)
pushEvent(E, event) ==
    [E EXCEPT !.events = Append(@, event), !.eventIdCounter = @ + 1]

\* emitEvent, with the id and timestamp every caller gives the event
emitEvent(E, ev) ==
    notify(pushEvent(E, ev @@ [id |-> E.eventIdCounter,
                               timestamp |-> E.currentTime]),
           ev @@ [id |-> E.eventIdCounter, timestamp |-> E.currentTime], 1)

\* window.setInterval: a new active interval with a fresh id
FreshTimerId(E) ==
    CHOOSE i \in 1..(Cardinality(E.timers) + 1) :
        /\ \A t \in E.timers : t.id # i
        /\ \A j \in 1..(i - 1) : \E t \in E.timers : t.id = j

\* clearInterval(this.intervalId); this.intervalId = null
\* forgetting the interval without clearing it
forgetInterval(E) == [E EXCEPT !.intervalId = Null]

clearIntervalIfSet(E) ==
    IF E.intervalId # Null
    THEN [E EXCEPT
            !.timers = {t \in @ : t.id # E.intervalId},
            !.staleCallback = TRUE,
            !.intervalId = Null]
    ELSE E

runSimulationLoop(E) ==
    LET actualTickRate == Rat(config.tickRate, E.speed)
        id == FreshTimerId(E)
    IN  [E EXCEPT
            !.timers = @ \cup {[id |-> id, delay |-> actualTickRate]},
            !.intervalId = id]

\* ------------------------------------------------------------------------
\* Lifecycle methods
\* ------------------------------------------------------------------------
\* start() without its check of the status
startUnguarded(E) ==
    runSimulationLoop(
        emitEvent([E EXCEPT !.status = RUNNING],
                  LifecycleEvent("started", "info")))

start(E) ==
    IF E.status = RUNNING THEN E
    ELSE runSimulationLoop(
            emitEvent([E EXCEPT !.status = RUNNING],
                      LifecycleEvent("started", "info")))

\* pause() without its check of the status
pauseUnguarded(E) ==
    emitEvent(clearIntervalIfSet([E EXCEPT !.status = PAUSED]),
              LifecycleEvent("paused", "info"))

pause(E) ==
    IF E.status # RUNNING THEN E
    ELSE emitEvent(clearIntervalIfSet([E EXCEPT !.status = PAUSED]),
                   LifecycleEvent("paused", "info"))

resume(E) ==
    IF E.status # PAUSED THEN E
    ELSE runSimulationLoop(
            emitEvent([E EXCEPT !.status = RUNNING],
                      LifecycleEvent("resumed", "info")))

stop(E) ==
    emitEvent(clearIntervalIfSet([E EXCEPT !.status = STOPPED]),
              LifecycleEvent("stopped", "info"))

\* setSpeed() that reschedules without pausing first
setSpeedNoPause(E, n) ==
    IF E.status = RUNNING THEN runSimulationLoop([E EXCEPT !.speed = n])
    ELSE [E EXCEPT !.speed = n]

setSpeed(E, n) ==
    LET wasRunning == E.status = RUNNING
        E1 == IF wasRunning THEN pause(E) ELSE E
        E2 == [E1 EXCEPT !.speed = n]
    IN  IF wasRunning THEN resume(E2) ELSE E2

\* ------------------------------------------------------------------------
\* The actions of the host's store
\* ------------------------------------------------------------------------
\* new SimulationEngine(nodes, edges, config) in the place of the engine
\* the store held, with the store's listener, and the store's set({...})
newEngine(E) ==
    [E EXCEPT !.status = IDLE, !.currentTime = 0, !.activeRequests = <<>>,
              !.nodeMetrics = initialNodeMetrics(nodes, config),
              !.systemMetrics = createEmptySystemMetrics,
              !.events = <<>>, !.metricsHistory = <<>>, !.speed = 1,
              !.intervalId = Null, !.requestIdCounter = 0,
              !.eventIdCounter = 0, !.timers = {},
              !.staleCallback = FALSE,
              !.received = [i \in DOMAIN @ |-> <<>>],
              !.store = [engine |-> TRUE, status |-> IDLE,
                         result |-> <<>>, showSummary |-> FALSE]]

\* if (engine) engine.stop()
stopIfAny(E) == IF E.store.engine THEN stop(E) ELSE E

\* initializeSimulation after its clean-up of the engine it found
createEngine(E) == IF Len(nodes) = 0 THEN E ELSE newEngine(E)

initializeSimulation(E) == createEngine(stopIfAny(E))

\* const newEngine = get().engine; if (newEngine) newEngine.start()
startIfAny(E) == IF E.store.engine THEN start(E) ELSE E

startSimulation(E) ==
    [(IF ~E.store.engine THEN startIfAny(initializeSimulation(E))
      ELSE start(E))
     EXCEPT !.store.status = RUNNING]

pauseSimulation(E) ==
    IF E.store.engine THEN [pause(E) EXCEPT !.store.status = PAUSED] ELSE E

resumeSimulation(E) ==
    IF E.store.engine THEN [resume(E) EXCEPT !.store.status = RUNNING]
    ELSE E

\* a stop that stops the engine twice
stopSimulationTwice(E) ==
    IF E.store.engine
    THEN [stop(stop(E)) EXCEPT
            !.store.status = STOPPED,
            !.store.result = <<storedResult(stop(stop(E)))>>,
            !.store.showSummary = (E.store.status # COMPLETED)]
    ELSE E

\* status is read before engine.stop(), the result after it
stopSimulation(E) ==
    IF E.store.engine
    THEN [stop(E) EXCEPT
            !.store.status = STOPPED,
            !.store.result = <<storedResult(stop(E))>>,
            !.store.showSummary = (E.store.status # COMPLETED)]
    ELSE E

\* the store's set({engine: null, ...}) of resetSimulation
clearStore(E) ==
    [E EXCEPT !.store = InitialStore,
              !.received = [i \in DOMAIN @ |-> <<>>]]

resetSimulation(E) == initializeSimulation(clearStore(stopIfAny(E)))

storeSetSpeed(E, n) == IF E.store.engine THEN setSpeed(E, n) ELSE E

complete(E) ==
    IF E.status = COMPLETED THEN E
    ELSE emitEvent([stop(E) EXCEPT !.status = COMPLETED],
                   [LifecycleEvent("completed", "success") EXCEPT
                        !.args = <<ToString(E.systemMetrics.totalRequests)>>])

\* ------------------------------------------------------------------------
\* Request generation
\* ------------------------------------------------------------------------
clientNodes == SelectSeq(nodes, LAMBDA n : n.type = CLIENT)

EdgesFrom(nodeId) == SelectSeq(edges, LAMBDA e : e.source = nodeId)

\* Math.floor(requestsThisTick + Math.random()) over Math.random() in [0,1)
RequestsToGenerate ==
    LET p == config.requestsPerSecond * config.tickRate
    IN  IF p % 1000 = 0 THEN {p \div 1000}
        ELSE {p \div 1000, p \div 1000 + 1}

\* The two Math.random() picks of one iteration: the client and, when the
\* client has outgoing edges, one of them (edge = 0: it has none)
GenPicks ==
    {pk \in [client : 1..Len(clientNodes), edge : 0..Len(edges)] :
        LET n == Len(EdgesFrom(clientNodes[pk.client].id))
        IN  IF n = 0 THEN pk.edge = 0 ELSE pk.edge \in 1..n}

label(nodeId) == getNodeById(nodes, nodeId).id

\* a request that is sent without being counted
generateOneUncounted(E, pk) ==
    LET clientNode == clientNodes[pk.client]
        targetEdges == EdgesFrom(clientNode.id)
    IN  IF Len(targetEdges) = 0 THEN E
        ELSE
        LET targetNodeId == targetEdges[pk.edge].target
            request ==
                [id |-> E.requestIdCounter, sourceNodeId |-> clientNode.id,
                 targetNodeId |-> targetNodeId, path |-> <<clientNode.id>>,
                 startTime |-> E.currentTime, currentLatency |-> 0,
                 payload |-> config.payloadSize, status |-> "pending",
                 progress |-> <<0, 1>>]
            E1 == [E EXCEPT
                    !.requestIdCounter = @ + 1,
                    !.activeRequests = Append(@, request)]
        IN  emitEvent(E1,
                Event(REQUEST_SENT, clientNode.id, <<clientNode.id>>, -1,
                      <<targetNodeId>>, <<"Request", "sent", "from", "to">>,
                      <<ToString(request.id), label(clientNode.id),
                        label(targetNodeId)>>, "info"))

generateOne(E, pk) ==
    LET clientNode == clientNodes[pk.client]
        targetEdges == EdgesFrom(clientNode.id)
    IN  IF Len(targetEdges) = 0 THEN E
        ELSE
        LET targetNodeId == targetEdges[pk.edge].target
            request ==
                [id |-> E.requestIdCounter, sourceNodeId |-> clientNode.id,
                 targetNodeId |-> targetNodeId, path |-> <<clientNode.id>>,
                 startTime |-> E.currentTime, currentLatency |-> 0,
                 payload |-> config.payloadSize, status |-> "pending",
                 progress |-> <<0, 1>>]
            E1 == [E EXCEPT
                    !.requestIdCounter = @ + 1,
                    !.activeRequests = Append(@, request),
                    !.systemMetrics.totalRequests = @ + 1]
        IN  emitEvent(E1,
                Event(REQUEST_SENT, clientNode.id, <<clientNode.id>>, -1,
                      <<targetNodeId>>, <<"Request", "sent", "from", "to">>,
                      <<ToString(request.id), label(clientNode.id),
                        label(targetNodeId)>>, "info"))

RECURSIVE generateLoop(_, _, _)
generateLoop(E, picks, i) ==
    IF i > Len(picks) THEN E
    ELSE generateLoop(generateOne(E, picks[i]), picks, i + 1)

\* picks: one pick per iteration of the loop (empty when there is no client)
generateRequests(E, picks) ==
    IF Len(clientNodes) = 0 THEN E ELSE generateLoop(E, picks, 1)

\* The picks a tick can make
GenChoices ==
    IF Len(clientNodes) = 0 THEN {<<>>}
    ELSE UNION {[1..n -> GenPicks] : n \in RequestsToGenerate}

\* ------------------------------------------------------------------------
\* Latencies and routing
\* ------------------------------------------------------------------------
\* The key `${source type}→${target type}` of the latency matrix
NetworkKey(sourceNode, targetNode) == <<sourceNode.type, targetNode.type>>

getNetworkLatency(sourceId, targetId) ==
    LET sourceNode == getNodeById(nodes, sourceId)
        targetNode == getNodeById(nodes, targetId)
    IN  IF sourceNode = UndefinedNode \/ targetNode = UndefinedNode THEN 10
        ELSE LET key == NetworkKey(sourceNode, targetNode)
                 hits == {kv \in config.network : kv[1] = key}
             IN  \* config.network[key] || 10
                 IF hits = {} THEN 10
                 ELSE LET v == (CHOOSE kv \in hits : TRUE)[2]
                      IN  IF v = 0 THEN 10 ELSE v

getProcessingLatency(node) ==
    CASE node.type = DATABASE -> config.dbLatency
      [] node.type = CACHE -> 2
      [] node.type = QUEUE -> 5
      [] node.type = SERVICE -> config.serviceCpuCost
      [] OTHER -> 5

\* findNextHop without its filter of the visited nodes
findNextHopAny(currentNodeId, request) ==
    LET outgoingEdges == EdgesFrom(currentNodeId)
    IN  IF Len(outgoingEdges) = 0 THEN NoHop ELSE outgoingEdges[1].target

\* The first outgoing edge whose target is not in the request's path
findNextHop(currentNodeId, request) ==
    LET outgoingEdges == EdgesFrom(currentNodeId)
        unvisitedEdges ==
            SelectSeq(outgoingEdges,
                      LAMBDA e : ~Includes(request.path, e.target))
    IN  IF Len(unvisitedEdges) = 0 THEN NoHop
        ELSE unvisitedEdges[1].target

\* a progress that never reaches 1
ProgressStalled(currentLatency, totalLatency) == <<0, 1>>

\* Math.min(currentLatency / totalLatency, 1)
Progress(currentLatency, totalLatency) ==
    IF totalLatency = 0 THEN <<1, 1>>
    ELSE RatMin(Rat(currentLatency, totalLatency), <<1, 1>>)

\* ------------------------------------------------------------------------
\* Node processing
\* ------------------------------------------------------------------------
\* hit: the outcome of Math.random() < cacheHitRatio
\* node processing that warns only when the queue is over its capacity
handleNodeProcessingLate(E, node, request, hit) ==
    LET m0 == E.nodeMetrics[node.id]
        m1 == [m0 EXCEPT !.throughput = @ + 1]
        nodeEvent(type, words, args, severity) ==
            Event(type, node.id, <<>>, -1, <<>>, words, args, severity)
        rid == ToString(request.id)
        \* the node-type switch: metrics and events
        m2 == CASE node.type = DATABASE ->
                     [m1 EXCEPT !.queryRate =
                        <<(IF @ = Undefined THEN 0 ELSE @[1]) + 1>>]
                [] node.type = QUEUE -> [m1 EXCEPT !.queueDepth = @ + 1]
                [] OTHER -> m1
        E1 == CASE node.type = CACHE ->
                     IF hit
                     THEN emitEvent(E, nodeEvent(CACHE_HIT,
                            <<"Cache", "hit", "for", "request">>, <<rid>>,
                            "success"))
                     ELSE emitEvent(E, nodeEvent(CACHE_MISS,
                            <<"Cache", "miss", "for", "request",
                              "forwarding", "to", "backend">>, <<rid>>,
                            "warning"))
                [] node.type = DATABASE ->
                     emitEvent(E, nodeEvent(DB_QUERY,
                        <<"DB", "query", "for", "request", "latency">>,
                        <<rid, ToString(config.dbLatency)>>, "info"))
                [] node.type = QUEUE ->
                     LET Eq == emitEvent(E, nodeEvent(QUEUE_ENQUEUE,
                                <<"Message", "enqueued", "depth">>,
                                <<ToString(m2.queueDepth)>>, "info"))
                     IN  \* queueDepth > messageQueueDepth
                         IF m2.queueDepth > config.messageQueueDepth
                         THEN emitEvent(Eq, nodeEvent(BACKLOG_WARNING,
                                <<"Queue", "backlog", "warning">>,
                                <<ToString(m2.queueDepth),
                                  ToString(config.messageQueueDepth)>>,
                                "warning"))
                         ELSE Eq
                [] OTHER -> E
        \* Update node load
        rps == Rat(m2.throughput * 1000, E.currentTime)
        cpu == RatMin(RatMul(RatMul(rps, <<1, 100>>), RatInt(m2.instances)),
                      <<1, 1>>)
        m3 == [m2 EXCEPT !.requestsPerSecond = rps, !.cpuUtilization = cpu]
    IN  [E1 EXCEPT !.nodeMetrics[node.id] = m3]

handleNodeProcessing(E, node, request, hit) ==
    LET m0 == E.nodeMetrics[node.id]
        m1 == [m0 EXCEPT !.throughput = @ + 1]
        nodeEvent(type, words, args, severity) ==
            Event(type, node.id, <<>>, -1, <<>>, words, args, severity)
        rid == ToString(request.id)
        \* the node-type switch: metrics and events
        m2 == CASE node.type = DATABASE ->
                     [m1 EXCEPT !.queryRate =
                        <<(IF @ = Undefined THEN 0 ELSE @[1]) + 1>>]
                [] node.type = QUEUE -> [m1 EXCEPT !.queueDepth = @ + 1]
                [] OTHER -> m1
        E1 == CASE node.type = CACHE ->
                     IF hit
                     THEN emitEvent(E, nodeEvent(CACHE_HIT,
                            <<"Cache", "hit", "for", "request">>, <<rid>>,
                            "success"))
                     ELSE emitEvent(E, nodeEvent(CACHE_MISS,
                            <<"Cache", "miss", "for", "request",
                              "forwarding", "to", "backend">>, <<rid>>,
                            "warning"))
                [] node.type = DATABASE ->
                     emitEvent(E, nodeEvent(DB_QUERY,
                        <<"DB", "query", "for", "request", "latency">>,
                        <<rid, ToString(config.dbLatency)>>, "info"))
                [] node.type = QUEUE ->
                     LET Eq == emitEvent(E, nodeEvent(QUEUE_ENQUEUE,
                                <<"Message", "enqueued", "depth">>,
                                <<ToString(m2.queueDepth)>>, "info"))
                     IN  \* queueDepth > messageQueueDepth * 0.8
                         IF m2.queueDepth * 10 > config.messageQueueDepth * 8
                         THEN emitEvent(Eq, nodeEvent(BACKLOG_WARNING,
                                <<"Queue", "backlog", "warning">>,
                                <<ToString(m2.queueDepth),
                                  ToString(config.messageQueueDepth)>>,
                                "warning"))
                         ELSE Eq
                [] OTHER -> E
        \* Update node load
        rps == Rat(m2.throughput * 1000, E.currentTime)
        cpu == RatMin(RatMul(RatMul(rps, <<1, 100>>), RatInt(m2.instances)),
                      <<1, 1>>)
        m3 == [m2 EXCEPT !.requestsPerSecond = rps, !.cpuUtilization = cpu]
    IN  [E1 EXCEPT !.nodeMetrics[node.id] = m3]

\* (currentAvg * (count - 1) + latency) / count, count = successfulRequests
updateLatencyMetrics(E, latency) ==
    LET count == E.systemMetrics.successfulRequests
        currentAvg == E.systemMetrics.averageLatency
    IN  [E EXCEPT !.systemMetrics.averageLatency =
            Rat(currentAvg[1] * (count - 1) + latency * currentAvg[2],
                currentAvg[2] * count)]

\* ------------------------------------------------------------------------
\* Request processing
\* ------------------------------------------------------------------------
\* The outcomes of Math.random() < p for a probability p
RollOutcomes(p) ==
    {b \in BOOLEAN : IF b THEN RatLess(<<0, 1>>, p) ELSE RatLess(p, <<1, 1>>)}

\* The rolls of one request: the failure roll and the cache roll
Rolls ==
    [fail : RollOutcomes(config.errorRate),
     hit : RollOutcomes(config.cacheHitRatio)]

\* never skipping a request that is already completed or failed
IsTerminalNever(request) == FALSE

IsTerminal(request) ==
    request.status = "completed" \/ request.status = "failed"

\* request.path.push(target): the array is shared with the events that were
\* emitted with sourcePath: request.path, which see the push
pushPath(E, i, target) ==
    LET request == E.activeRequests[i]
        newPath == Append(request.path, target)
    IN  [E EXCEPT
            !.activeRequests[i].path = newPath,
            !.events = [k \in 1..Len(@) |->
                            IF @[k].pathOf = request.id
                            THEN [@[k] EXCEPT !.sourcePath = newPath]
                            ELSE @[k]]]

\* The request at index i has finished at targetNode without failing: it
\* is forwarded to the next hop or completes (E: after handleNodeProcessing)
routeOn(E, i, targetNode) ==
    LET request == E.activeRequests[i]
        rid == ToString(request.id)
        nextHop == findNextHop(targetNode.id, request)
        totalLatency == E.currentTime - request.startTime
    IN
    IF nextHop # NoHop
    THEN emitEvent([E EXCEPT !.activeRequests[i].targetNodeId = nextHop,
                             !.activeRequests[i].currentLatency = 0,
                             !.activeRequests[i].progress = <<0, 1>>,
                             !.activeRequests[i].status = "processing"],
            Event(REQUEST_PROCESSED, targetNode.id, request.path, request.id,
                  <<nextHop>>,
                  <<"Request", "processed", "by", "forwarding", "to">>,
                  <<rid, label(targetNode.id), label(nextHop)>>, "info"))
    ELSE emitEvent(
            updateLatencyMetrics(
                [E EXCEPT !.activeRequests[i].status = "completed",
                          !.systemMetrics.successfulRequests = @ + 1],
                totalLatency),
            Event(REQUEST_PROCESSED, targetNode.id, request.path, request.id,
                  <<>>, <<"Request", "completed", "latency">>,
                  <<rid, ToString(totalLatency)>>, "success"))

\* The request at index i has reached targetNode (E: after path.push): the
\* failure roll, then the node's processing and the routing
\* an arrival whose failure is charged to the node
arriveAtCharging(E, i, targetNode, roll) ==
    IF roll.fail
    THEN emitEvent([E EXCEPT !.activeRequests[i].status = "failed",
                             !.systemMetrics.failedRequests = @ + 1,
                             !.nodeMetrics[targetNode.id].errorRate =
                                    <<1, 1>>],
            Event(REQUEST_FAILED, targetNode.id, E.activeRequests[i].path,
                  E.activeRequests[i].id,
                  <<>>, <<"Request", "failed", "at">>,
                  <<ToString(E.activeRequests[i].id),
                    label(targetNode.id)>>, "error"))
    ELSE routeOn(handleNodeProcessing(E, targetNode, E.activeRequests[i],
                                      roll.hit),
                 i, targetNode)

arriveAt(E, i, targetNode, roll) ==
    LET request == E.activeRequests[i]
    IN
    IF roll.fail
    THEN emitEvent([E EXCEPT !.activeRequests[i].status = "failed",
                             !.systemMetrics.failedRequests = @ + 1],
            Event(REQUEST_FAILED, targetNode.id, request.path, request.id,
                  <<>>, <<"Request", "failed", "at">>,
                  <<ToString(request.id), label(targetNode.id)>>, "error"))
    ELSE routeOn(handleNodeProcessing(E, targetNode, request, roll.hit),
                 i, targetNode)

\* The body of the forEach callback for the request at index i.  P carries
\* the engine and the local list completedRequests.
processOne(P, i, deltaTime, roll) ==
    LET request == P.E.activeRequests[i]
        targetNode == getNodeById(nodes, request.targetNodeId)
        networkLatency ==
            getNetworkLatency(request.path[Len(request.path)],
                              request.targetNodeId)
        processingLatency == getProcessingLatency(targetNode)
        totalLatency == networkLatency + processingLatency
        currentLatency == request.currentLatency + deltaTime
        progress == Progress(currentLatency, totalLatency)
    IN
    IF IsTerminal(request)
    THEN [P EXCEPT !.completedRequests = Append(@, request.id)]
    ELSE IF targetNode = UndefinedNode
    THEN [P EXCEPT !.E.activeRequests[i].status = "failed",
                   !.E.systemMetrics.failedRequests = @ + 1]
    ELSE IF RatLess(progress, <<1, 1>>)
    THEN [P EXCEPT !.E.activeRequests[i].currentLatency = currentLatency,
                   !.E.activeRequests[i].progress = progress]
    ELSE [P EXCEPT !.E =
            arriveAt(
                pushPath([P.E EXCEPT
                            !.activeRequests[i].currentLatency = currentLatency,
                            !.activeRequests[i].progress = progress],
                         i, request.targetNodeId),
                i, targetNode, roll)]

\* a forEach that a request whose target node is missing brings to an end
RECURSIVE processLoopHalting(_, _, _, _)
processLoopHalting(P, i, deltaTime, rolls) ==
    IF i > Len(P.E.activeRequests) THEN P
    ELSE IF /\ i > 1
            /\ getNodeById(nodes, P.E.activeRequests[i - 1].targetNodeId)
                    = UndefinedNode
    THEN P
    ELSE processLoopHalting(processOne(P, i, deltaTime, rolls[i]), i + 1,
                            deltaTime, rolls)

RECURSIVE processLoop(_, _, _, _)
processLoop(P, i, deltaTime, rolls) ==
    IF i > Len(P.E.activeRequests) THEN P
    ELSE processLoop(processOne(P, i, deltaTime, rolls[i]), i + 1,
                     deltaTime, rolls)

\* Remove completed requests
removeCompleted(P) ==
    [P.E EXCEPT !.activeRequests =
        SelectSeq(@, LAMBDA r : ~Includes(P.completedRequests, r.id))]

\* rolls: the rolls of each active request, by its index
processRequests(E, deltaTime, rolls) ==
    removeCompleted(
        processLoop([E |-> E, completedRequests |-> <<>>], 1, deltaTime,
                    rolls))

\* ------------------------------------------------------------------------
\* Metrics, auto-scaling, chaos, snapshots
\* ------------------------------------------------------------------------
\* metrics whose error rate and queue depth are left as they were
updateMetricsStale(E) ==
    [E EXCEPT !.systemMetrics.timestamp = E.currentTime,
              !.systemMetrics.activeRequests = Len(E.activeRequests),
              !.systemMetrics.requestsPerSecond =
                    <<E.systemMetrics.totalRequests * 1000, E.currentTime>>]

updateMetrics(E) ==
    LET sm == E.systemMetrics
        sm1 == [sm EXCEPT
                  !.timestamp = E.currentTime,
                  !.activeRequests = Len(E.activeRequests),
                  !.requestsPerSecond =
                        Rat(sm.totalRequests * 1000, E.currentTime),
                  !.errorRate =
                        IF sm.totalRequests > 0
                        THEN Rat(sm.failedRequests, sm.totalRequests)
                        ELSE @,
                  !.totalQueueDepth =
                        SumOver([id \in DOMAIN E.nodeMetrics |->
                                    E.nodeMetrics[id].queueDepth],
                                DOMAIN E.nodeMetrics)]
        nm1 == [id \in DOMAIN E.nodeMetrics |->
                  LET m == E.nodeMetrics[id]
                  IN  IF m.throughput > 0
                      THEN [m EXCEPT !.successRate =
                              Rat(m.errorRate[2] - m.errorRate[1],
                                  m.errorRate[2])]
                      ELSE m]
    IN  [E EXCEPT !.systemMetrics = sm1, !.nodeMetrics = nm1]

\* a scaling reported as an overload
ScaledEventMistyped(nodeId, words, instances, severity) ==
    Event(NODE_OVERLOAD, nodeId, <<>>, -1, <<>>, words,
          <<label(nodeId), ToString(instances)>>, severity)

ScaledEvent(nodeId, words, instances, severity) ==
    Event(NODE_SCALED, nodeId, <<>>, -1, <<>>, words,
          <<label(nodeId), ToString(instances)>>, severity)

\* scaling up without the cap of 10 instances
scaleUpUncapped(E, nodeId) ==
    LET m == E.nodeMetrics[nodeId]
    IN  IF RatLess(<<4, 5>>, m.cpuUtilization)
        THEN [emitEvent(
                  [E EXCEPT !.nodeMetrics[nodeId].instances = @ + 1,
                            !.systemMetrics.scalingActions = @ + 1],
                  ScaledEvent(nodeId, <<"Auto-scaled", "+1", "instance">>,
                              m.instances + 1, "success"))
              EXCEPT !.nodeMetrics[nodeId].cpuUtilization =
                          RatMul(@, <<4, 5>>)]
        ELSE E

\* Scale up if CPU > 80%
scaleUp(E, nodeId) ==
    LET m == E.nodeMetrics[nodeId]
    IN  IF RatLess(<<4, 5>>, m.cpuUtilization) /\ m.instances < 10
        THEN [emitEvent(
                  [E EXCEPT !.nodeMetrics[nodeId].instances = @ + 1,
                            !.systemMetrics.scalingActions = @ + 1],
                  ScaledEvent(nodeId, <<"Auto-scaled", "+1", "instance">>,
                              m.instances + 1, "success"))
              EXCEPT !.nodeMetrics[nodeId].cpuUtilization =
                          RatMul(@, <<4, 5>>)]
        ELSE E

\* Scale down if CPU < 30%
scaleDown(E, nodeId) ==
    LET m == E.nodeMetrics[nodeId]
    IN  IF RatLess(m.cpuUtilization, <<3, 10>>) /\ m.instances > 1
        THEN [emitEvent(
                  [E EXCEPT !.nodeMetrics[nodeId].instances = @ - 1,
                            !.systemMetrics.scalingActions = @ + 1],
                  ScaledEvent(nodeId, <<"Auto-scaled", "-1", "instance">>,
                              m.instances - 1, "info"))
              EXCEPT !.nodeMetrics[nodeId].cpuUtilization =
                          RatMul(@, <<6, 5>>)]
        ELSE E

\* a check that only ever scales down
scaleOneDownOnly(E, nodeId) ==
    IF getNodeById(nodes, nodeId).type # SERVICE THEN E
    ELSE scaleDown(E, nodeId)

\* The body of the forEach callback of checkAutoScaling for one node
scaleOne(E, nodeId) ==
    IF getNodeById(nodes, nodeId).type # SERVICE THEN E
    ELSE scaleDown(scaleUp(E, nodeId), nodeId)

RECURSIVE scaleLoop(_, _)
scaleLoop(E, i) ==
    IF i > Len(nodes) THEN E ELSE scaleLoop(scaleOne(E, nodes[i].id), i + 1)

\* nodeMetrics.forEach visits the nodes in the order of this.nodes
checkAutoScaling(E) == scaleLoop(E, 1)

\* chaos: 0 when Math.random() >= 0.05, else the index of the node picked;
\* -1 when there is no node to pick (reading .id of undefined throws)
ChaosChoices == {0} \cup (IF Len(nodes) = 0 THEN {-1} ELSE 1..Len(nodes))

applyChaosEffects(E, chaos) ==
    IF chaos = 0 THEN E
    ELSE IF chaos = -1 THEN [E EXCEPT !.threw = TRUE]
    ELSE emitEvent(E,
            Event(NODE_OVERLOAD, nodes[chaos].id, <<>>, -1, <<>>,
                  <<"Chaos", "Latency", "spike", "detected">>, <<>>,
                  "warning"))

\* system is a copy; nodes is a new Map over the same NodeMetrics objects,
\* so only its keys are the snapshot's own
takeMetricsSnapshot(E) ==
    [E EXCEPT !.metricsHistory =
        Append(@, [timestamp |-> E.currentTime, system |-> E.systemMetrics,
                   nodes |-> DOMAIN E.nodeMetrics, edges |-> {}])]

\* No listener of the model changes the engine
emitMetrics(E) == E

\* ------------------------------------------------------------------------
\* The tick and the interval's callback
\* ------------------------------------------------------------------------
\* Steps 8 and 9 of a tick; a tick that threw has stopped before them
snapshotAndNotify(E) ==
    IF E.threw THEN E
    ELSE emitMetrics(IF E.currentTime % 1000 = 0
                     THEN takeMetricsSnapshot(E) ELSE E)

scalingStep(E) == IF config.autoScaling THEN checkAutoScaling(E) ELSE E

chaosStep(E, chaos) ==
    IF config.chaosMode THEN applyChaosEffects(E, chaos) ELSE E

tick(E, picks, rolls, chaos) ==
    snapshotAndNotify(
        chaosStep(
            scalingStep(
                updateMetrics(
                    processRequests(
                        generateRequests(
                            [E EXCEPT !.currentTime = @ + config.tickRate],
                            picks),
                        config.tickRate, rolls))),
            chaos))

\* Check if simulation should complete (E: after the tick)
completeIfDue(E) ==
    IF E.threw THEN E
    ELSE IF E.currentTime >= config.duration * 1000 THEN complete(E)
    ELSE E

\* the callback without its check of the status
callbackUnguarded(E, picks, rolls, chaos) ==
    completeIfDue(tick(E, picks, rolls, chaos))

\* The function given to window.setInterval
callback(E, picks, rolls, chaos) ==
    IF E.status # RUNNING THEN E
    ELSE completeIfDue(tick(E, picks, rolls, chaos))

\* ------------------------------------------------------------------------
\* Actions: the host's control calls and the window running a callback
\* ------------------------------------------------------------------------
\* The events of start(), pause(), resume() and stop()
ControlEvents(evs) ==
    {i \in 1..Len(evs) :
        /\ evs[i].message[1] = "Simulation"
        /\ evs[i].message[2] # "completed"}

\* How far a run is followed: a run under load is long, so the host makes
\* few control calls in it
UnderLoad == config \in {ScaleUpConfig, ScaleDownConfig}

TimeBound == IF config = ScaleDownConfig THEN MaxLoadTime ELSE MaxTime

EventBound == IF config = ScaleUpConfig THEN MaxLoadEvents ELSE MaxEvents

RequestBound ==
    IF config = ScaleUpConfig THEN MaxLoadRequests ELSE MaxRequests

ControlBound == IF UnderLoad THEN MaxLoadControlEvents ELSE MaxControlEvents

WithinBounds(E) ==
    /\ E.currentTime <= TimeBound
    /\ Len(E.events) <= EventBound
    /\ Cardinality(ControlEvents(E.events)) <= ControlBound
    /\ E.requestIdCounter <= RequestBound
    /\ \A t \in E.timers : t.id <= MaxTimers

\* The engine after the operation op
Commit(E, op) ==
    /\ WithinBounds(E)
    /\ status' = E.status
    /\ currentTime' = E.currentTime
    /\ activeRequests' = E.activeRequests
    /\ nodeMetrics' = E.nodeMetrics
    /\ systemMetrics' = E.systemMetrics
    /\ events' = E.events
    /\ metricsHistory' = E.metricsHistory
    /\ speed' = E.speed
    /\ intervalId' = E.intervalId
    /\ requestIdCounter' = E.requestIdCounter
    /\ eventIdCounter' = E.eventIdCounter
    /\ timers' = E.timers
    /\ staleCallback' = E.staleCallback
    /\ lastOp' = op
    /\ received' = E.received
    /\ store' = E.store
    /\ UNCHANGED <<nodes, edges, config, eventListeners>>

Start == Commit(start(Engine), "start")

Pause == Commit(pause(Engine), "pause")

Resume == Commit(resume(Engine), "resume")

Stop == Commit(stop(Engine), "stop")

SetSpeed == \E n \in Speeds : Commit(setSpeed(Engine, n), "setSpeed")

\* The callback runs with some outcome of its Math.random() calls; it makes
\* none of them when the status is not Running
RunCallback(op) ==
    IF status # RUNNING
    THEN Commit(callback(Engine, <<>>,
                         [i \in 1..Len(activeRequests) |->
                            [fail |-> FALSE, hit |-> FALSE]], 0), op)
    ELSE \E picks \in GenChoices :
            \E rolls \in [1..(Len(activeRequests) + Len(picks)) -> Rolls] :
                \E chaos \in (IF config.chaosMode THEN ChaosChoices
                              ELSE {0}) :
                    Commit(callback(Engine, picks, rolls, chaos), op)

\* An active interval fires
TimerFire == timers # {} /\ RunCallback("timer")

\* The callback of an interval that was cleared is run all the same; the
\* engine does not rely on the window never doing so (the status check of
\* the callback)
StaleTimerFire == staleCallback /\ timers = {} /\ RunCallback("staleTimer")

Next ==
    \/ Start
    \/ Pause
    \/ Resume
    \/ Stop
    \/ SetSpeed
    \/ TimerFire
    \/ StaleTimerFire

Spec == Init /\ [][Next]_vars

\* The host's store and the engine it creates.  The host calls the store's
\* actions, and the window runs the engine's interval.
StoreListeners == <<StoreListener>>

StoreScenarios ==
    {[graph |-> GraphService, config |-> BaseConfig],
     [graph |-> GraphNoClient, config |-> QuietConfig],
     [graph |-> GraphEmpty, config |-> QuietConfig]}

StoreInit == Constructed(StoreScenarios, StoreListeners)

InitializeSimulation ==
    Commit(initializeSimulation(Engine), "initializeSimulation")

StartSimulation == Commit(startSimulation(Engine), "startSimulation")

PauseSimulation == Commit(pauseSimulation(Engine), "pauseSimulation")

ResumeSimulation == Commit(resumeSimulation(Engine), "resumeSimulation")

StopSimulation == Commit(stopSimulation(Engine), "stopSimulation")

ResetSimulation == Commit(resetSimulation(Engine), "resetSimulation")

StoreSetSpeed ==
    \E n \in Speeds : Commit(storeSetSpeed(Engine, n), "storeSetSpeed")

StoreNext ==
    \/ InitializeSimulation
    \/ StartSimulation
    \/ PauseSimulation
    \/ ResumeSimulation
    \/ StopSimulation
    \/ ResetSimulation
    \/ StoreSetSpeed
    \/ TimerFire
    \/ StaleTimerFire

StoreSpec == StoreInit /\ [][StoreNext]_vars

\* The engine with a listener that calls stop() from inside its callback
ReentrantScenarios == {[graph |-> GraphNoClient, config |-> QuietConfig]}

ReentrantInit == Constructed(ReentrantScenarios, ReentrantListeners)

ReentrantSpec == ReentrantInit /\ [][Next]_vars

\* ------------------------------------------------------------------------
\* Properties
\* ------------------------------------------------------------------------
DurationMs == config.duration * 1000

\* What a tick works on
dataVars ==
    <<currentTime, activeRequests, nodeMetrics, systemMetrics,
      metricsHistory>>

CompletedEvents ==
    {i \in 1..Len(events) : events[i].message = <<"Simulation", "completed">>}

HasCompleted == CompletedEvents # {}

NonTerminal ==
    {i \in 1..Len(activeRequests) :
        activeRequests[i].status \in {"pending", "processing"}}

\* C1: over any sequence of control calls and timer ticks the 'Simulation
\* completed' event is emitted at most once.
C1_CompletedEmittedAtMostOnce == Cardinality(CompletedEvents) <= 1

\* C2: start() on an engine whose status is Completed does not return it to
\* Running.
C2_StartLeavesCompleted ==
    [][(lastOp' = "start" /\ status = COMPLETED) => status' # RUNNING]_vars

\* C3: stop() leaves the engine Stopped with no active schedule and does
\* not touch currentTime, the active requests, the node and system metrics
\* or the metrics history; while the status is Stopped no step changes
\* them, also when the callback of a cleared interval is run; and only a
\* start() takes the engine out of Stopped.
C3_NoTickAfterStop ==
    [][/\ lastOp' = "stop" =>
            (status' = STOPPED /\ timers' = {} /\ UNCHANGED dataVars)
       /\ status = STOPPED =>
            /\ UNCHANGED dataVars
            /\ status' # STOPPED => lastOp' = "start"]_vars

C3_Witness ==
    /\ status = STOPPED
    /\ lastOp = "staleTimer"
    /\ currentTime > 0
    /\ NonTerminal # {}

\* C4: stop() on an engine that is still Idle is a no-op: the status stays
\* Idle and no event is appended.
C4_StopWhileIdleIsNoOp ==
    [][(lastOp' = "stop" /\ status = IDLE) =>
            (status' = IDLE /\ events' = events)]_vars

\* C5: start() while Running, pause() while not Running and resume() while
\* not Paused leave the status, currentTime, the timer schedule, the active
\* requests, the metrics and the event log exactly as they were.
C5_GuardedCallsAreNoOps ==
    [][(\/ lastOp' = "start" /\ status = RUNNING
        \/ lastOp' = "pause" /\ status # RUNNING
        \/ lastOp' = "resume" /\ status # PAUSED)
            => UNCHANGED <<engineVars, timers>>]_vars

C5_Witness ==
    /\ lastOp = "pause"
    /\ status = STOPPED
    /\ currentTime > 0
    /\ activeRequests # <<>>

\* C6: pause() takes a Running engine to Paused, a Paused engine has no
\* tick schedule, resume() takes it back to Running with one schedule, and
\* pause(), every step taken while Paused and the resume() that ends the
\* pause leave currentTime, the active requests (path, currentLatency and
\* progress included), the node and system metrics and the metrics history
\* unchanged.
C6_PauseKeepsState ==
    /\ [](status = PAUSED => timers = {} /\ intervalId = Null)
    /\ [][/\ (lastOp' = "pause" /\ status = RUNNING) => status' = PAUSED
          /\ (lastOp' = "resume" /\ status = PAUSED) =>
                (status' = RUNNING /\ Cardinality(timers') = 1)
          /\ (status = PAUSED \/ status' = PAUSED) => UNCHANGED dataVars]_vars

C6_Witness ==
    /\ lastOp = "resume"
    /\ status = RUNNING
    /\ currentTime > 0
    /\ NonTerminal # {}

\* C7: setSpeed(n) leaves currentTime, the requests and the metrics as they
\* are and keeps the status; on a Running engine it leaves exactly one
\* active schedule, of interval tickRate / n; on any other engine it changes
\* the speed only; and every tick advances currentTime by exactly tickRate.
C7_SetSpeedKeepsTicks ==
    [][/\ lastOp' = "setSpeed" =>
            /\ UNCHANGED dataVars
            /\ status' = status
            /\ status = RUNNING =>
                    /\ Cardinality(timers') = 1
                    /\ \A t \in timers' :
                        /\ t.id = intervalId'
                        /\ t.delay = Rat(config.tickRate, speed')
            /\ status # RUNNING =>
                    UNCHANGED <<events, intervalId, requestIdCounter,
                                eventIdCounter, timers>>
       /\ currentTime' # currentTime =>
            currentTime' = currentTime + config.tickRate]_vars

C7_Witness ==
    /\ lastOp = "setSpeed"
    /\ status = RUNNING
    /\ speed = 2
    /\ currentTime > 0

\* C8: the engine completes at the end of the first tick that takes
\* currentTime to duration*1000 or beyond, cancels its schedule there, and
\* executes no tick once it has completed.
C8_CompletesAndTicksNoMore ==
    [][/\ (currentTime' # currentTime /\ currentTime' >= DurationMs) =>
            (status' = COMPLETED /\ timers' = {})
       /\ HasCompleted => currentTime' = currentTime]_vars

\* C9: a tick schedule is active if and only if the status is Running, and
\* there is never more than one active schedule, which is the one the
\* engine holds the id of.
C9_OneScheduleIffRunning ==
    /\ (timers # {}) <=> (status = RUNNING)
    /\ Cardinality(timers) <= 1
    /\ \A t \in timers : t.id = intervalId
    /\ (intervalId = Null) <=> (timers = {})

C9_Witness ==
    /\ lastOp = "start"
    /\ status = RUNNING
    /\ currentTime > 0
    /\ Cardinality(timers) = 1

\* The requests that a step takes to completed or failed
NewlyTerminal ==
    {i \in 1..Len(activeRequests') :
        /\ activeRequests'[i].status \in {"completed", "failed"}
        /\ \A j \in 1..Len(activeRequests) :
                activeRequests[j].id = activeRequests'[i].id =>
                    activeRequests[j].status \in {"pending", "processing"}}

Settled == systemMetrics.successfulRequests + systemMetrics.failedRequests

\* C10: successfulRequests + failedRequests <= totalRequests in every
\* state, with equality whenever no pending or processing request is in the
\* active set; and every step adds to the two counters exactly the number of
\* requests it takes to completed or failed, so that no request is counted
\* twice.
C10_CountersWithinTotal ==
    /\ [](/\ Settled <= systemMetrics.totalRequests
          /\ NonTerminal = {} => Settled = systemMetrics.totalRequests)
    /\ [][Settled' - Settled = Cardinality(NewlyTerminal)]_vars

C10_Witness ==
    /\ systemMetrics.successfulRequests > 0
    /\ systemMetrics.failedRequests > 0
    /\ NonTerminal = {}

\* ------------------------------------------------------------------------
\* Properties of the requests
\* ------------------------------------------------------------------------
Terminal == {"completed", "failed"}

\* A step in which a tick ran
Ticked == currentTime' # currentTime

NoRepeats(path) ==
    \A j, k \in 1..Len(path) : j # k => path[j] # path[k]

\* C11: at the end of every tick the active set holds no request whose
\* status is completed or failed: a request is removed in the tick in which
\* it reaches one of them.
C11_TerminalRequestsRemoved ==
    \A i \in 1..Len(activeRequests) : activeRequests[i].status \notin Terminal

\* C12: the path of every request holds no node id twice, the first hop out
\* of the client included.
C12_PathsHaveNoRepeats ==
    \A i \in 1..Len(activeRequests) : NoRepeats(activeRequests[i].path)

\* The request with that id in the active set before and after a step
IdsOf(reqs) == {reqs[i].id : i \in 1..Len(reqs)}

ById(reqs, id) == reqs[CHOOSE i \in 1..Len(reqs) : reqs[i].id = id]

\* The requests a tick works on: those in flight before it and those it
\* generates (a request leaves the active set only once it is terminal)
InFlight == {activeRequests[i].id : i \in NonTerminal}

Generated == IdsOf(activeRequests') \ IdsOf(activeRequests)

PathBefore(id) ==
    IF id \in Generated THEN <<ById(activeRequests', id).sourceNodeId>>
    ELSE ById(activeRequests, id).path

LatencyBefore(id) ==
    IF id \in Generated THEN 0 ELSE ById(activeRequests, id).currentLatency

MissingTarget(request) == request.targetNodeId \notin NodeIds(nodes)

\* The latency of the hop a request is on
HopLatency(request) ==
    getNetworkLatency(request.path[Len(request.path)], request.targetNodeId)
        + getProcessingLatency(getNodeById(nodes, request.targetNodeId))

\* C13: a request makes at most as many hops as the graph has nodes, a
\* request in flight has spent less than the latency of its hop on it, and
\* in every tick every request in flight either becomes completed or
\* failed, or makes one hop, or adds the tick to the time spent on its hop;
\* it never makes more than one hop in a tick.  So every request is
\* completed or failed after finitely many ticks, on a cyclic graph too.
C13_RequestsTerminate ==
    /\ [](\A i \in 1..Len(activeRequests) :
            LET r == activeRequests[i]
            IN  /\ Len(r.path) - 1 <= Cardinality(NodeIds(nodes))
                /\ (r.status \notin Terminal /\ ~MissingTarget(r)) =>
                        r.currentLatency < HopLatency(r))
    /\ [][Ticked =>
            \A id \in InFlight \cup Generated :
                /\ id \in IdsOf(activeRequests')
                /\ LET r == ById(activeRequests', id)
                   IN  \/ /\ r.status \in Terminal
                          /\ \/ r.path = PathBefore(id)
                             \/ r.path = Append(PathBefore(id), r.path[Len(r.path)])
                       \/ /\ r.status \notin Terminal
                          /\ Len(r.path) = Len(PathBefore(id)) + 1
                          /\ SubSeq(r.path, 1, Len(r.path) - 1) = PathBefore(id)
                          /\ r.currentLatency = 0
                       \/ /\ r.status \notin Terminal
                          /\ r.path = PathBefore(id)
                          /\ r.currentLatency
                                = LatencyBefore(id) + config.tickRate]_vars

\* A request that went round the cyclic graph (the client, the cache, the
\* queue, whose edge back to the cache it did not take) and has ended,
\* having waited a tick on its first hop
C13_Witness ==
    \E i \in 1..Len(activeRequests) :
        /\ activeRequests[i].path = <<"c", "a", "b">>
        /\ activeRequests[i].status \in Terminal
        /\ currentTime >= activeRequests[i].startTime + 3 * config.tickRate

\* C14: the targetNodeId of every request in the active set is the id of a
\* node of the graph.
C14_TargetsInGraph ==
    \A i \in 1..Len(activeRequests) : ~MissingTarget(activeRequests[i])

\* The requests whose target node was missing from the graph when the
\* tick's processing came to them: those in flight with such a target, and
\* those generated with one (a generated request that has made no hop still
\* has the target it was generated with)
StruckOut ==
    {id \in InFlight \cup Generated :
        IF id \in Generated
        THEN LET r == ById(activeRequests', id)
             IN  MissingTarget(r) /\ Len(r.path) = 1
        ELSE MissingTarget(ById(activeRequests, id))}

\* The tick's processing has come to the request
Processed(id) ==
    IF id \in Generated
    THEN LET r == ById(activeRequests', id)
         IN  ~(r.status = "pending" /\ r.currentLatency = 0
                /\ Len(r.path) = 1)
    ELSE ById(activeRequests', id) # ById(activeRequests, id)

\* C15: a tick marks every request whose target node is missing from the
\* graph failed, where it is, and counts every request it fails once in
\* failedRequests; in such a tick the processing still comes to every other
\* request, the system metrics are recomputed, the snapshot is taken when
\* one is due and the run completes when it is due.
C15_MissingTargetFailsAlone ==
    [][Ticked =>
        /\ \A id \in StruckOut :
                /\ ById(activeRequests', id).status = "failed"
                /\ ById(activeRequests', id).path = PathBefore(id)
        /\ systemMetrics'.failedRequests - systemMetrics.failedRequests
                = Cardinality({id \in InFlight \cup Generated :
                        ById(activeRequests', id).status = "failed"})
        /\ StruckOut # {} =>
                /\ \A id \in (InFlight \cup Generated) \ StruckOut :
                        Processed(id)
                /\ systemMetrics'.timestamp = currentTime'
                /\ systemMetrics'.activeRequests = Len(activeRequests')
                /\ systemMetrics'.errorRate =
                        Rat(systemMetrics'.failedRequests,
                            systemMetrics'.totalRequests)
                /\ currentTime' % 1000 = 0 =>
                        /\ Len(metricsHistory') = Len(metricsHistory) + 1
                        /\ metricsHistory'[Len(metricsHistory')].system
                                = systemMetrics'
                /\ currentTime' >= DurationMs => status' = COMPLETED]_vars

\* A tick has failed a request generated with a missing target and has then
\* taken the request after it to its end, and has taken its snapshot
C15_Witness ==
    /\ lastOp = "timer"
    /\ metricsHistory # <<>>
    /\ metricsHistory[Len(metricsHistory)].timestamp = currentTime
    /\ \E i, k \in 1..Len(activeRequests) :
            /\ i < k
            /\ MissingTarget(activeRequests[i])
            /\ activeRequests[i].status = "failed"
            /\ activeRequests[i].startTime = currentTime
            /\ activeRequests[k].status = "completed"
            /\ activeRequests[k].startTime = currentTime

\* The events a step appends (the log only grows)
NewEvents == {k \in (Len(events) + 1)..Len(events') : TRUE}

\* C16: every tick appends exactly one REQUEST_FAILED event for each request
\* it counts in failedRequests and exactly one completion event for each
\* request it counts in successfulRequests.
C16_OutcomesHaveEvents ==
    [][Ticked =>
        /\ Cardinality({k \in NewEvents : events'[k].type = REQUEST_FAILED})
                = systemMetrics'.failedRequests - systemMetrics.failedRequests
        /\ Cardinality({k \in NewEvents :
                            /\ events'[k].type = REQUEST_PROCESSED
                            /\ events'[k].message[2] = "completed"})
                = systemMetrics'.successfulRequests
                    - systemMetrics.successfulRequests]_vars

\* The requests that a tick took to a node where they did not fail
Hopped ==
    {id \in InFlight \cup Generated :
        LET r == ById(activeRequests', id)
        IN  /\ Len(r.path) = Len(PathBefore(id)) + 1
            /\ r.status # "failed"}

\* The edges, by their place in the edge list, that leave the node the
\* request is at for a node that is not in its path
UnvisitedEdges(request) ==
    {e \in 1..Len(edges) :
        /\ edges[e].source = request.path[Len(request.path)]
        /\ \A j \in 1..Len(request.path) :
                request.path[j] # edges[e].target}

\* C17: a request that a tick takes to a node n where it does not fail gets
\* as its next target the target of the first edge of the edge list that
\* leaves n for a node not in the request's path, and is completed at n
\* when there is no such edge.
C17_FirstUnvisitedEdge ==
    [][Ticked =>
        \A id \in Hopped :
            LET r == ById(activeRequests', id)
                candidates == UnvisitedEdges(r)
            IN  IF candidates = {} THEN r.status = "completed"
                ELSE /\ r.status = "processing"
                     /\ r.currentLatency = 0
                     /\ r.targetNodeId =
                            edges[CHOOSE e \in candidates :
                                    \A f \in candidates : e <= f].target]_vars

\* At the queue of the cyclic graph, whose first edge leads back to the
\* cache the request came from, the request was sent on along the second
C17_Witness ==
    \E i \in 1..Len(activeRequests) :
        /\ activeRequests[i].path = <<"c", "a", "b">>
        /\ activeRequests[i].targetNodeId = "x"
        /\ activeRequests[i].status = "processing"

\* ------------------------------------------------------------------------
\* Properties of the auto-scaling
\* ------------------------------------------------------------------------
ServiceIds == {id \in NodeIds(nodes) : getNodeById(nodes, id).type = SERVICE}

\* C18: the instances of every node are within 1..10 in every state, and
\* are 1 for every node that is not a SERVICE and for every node when
\* autoScaling is off.
C18_InstancesWithinRange ==
    \A id \in NodeIds(nodes) :
        /\ nodeMetrics[id].instances \in 1..10
        /\ (id \notin ServiceIds \/ ~config.autoScaling) =>
                nodeMetrics[id].instances = 1

\* A service at its cap after a tick that found it there under full load
C18_Witness ==
    \E id \in ServiceIds :
        /\ nodeMetrics[id].instances = 10
        /\ nodeMetrics[id].throughput > 10
        /\ lastOp = "timer"

\* The cpuUtilization the scaling check of the tick found for the node: the
\* check multiplies it by 0.8 when it scales up, by 1.2 when it scales down
CpuAtCheck(id) ==
    LET before == nodeMetrics[id].instances
        after == nodeMetrics'[id].instances
        cpu == nodeMetrics'[id].cpuUtilization
    IN  IF after = before + 1 THEN RatMul(cpu, <<5, 4>>)
        ELSE IF after = before - 1 THEN RatMul(cpu, <<5, 6>>)
        ELSE cpu

\* C19: with autoScaling on, a tick whose scaling check finds a SERVICE
\* node with cpuUtilization > 0.8 adds one instance to it when it has fewer
\* than 10 and leaves it at 10 otherwise, no tick changes the instances of
\* a node by more than one, and scalingActions grows by one for each node
\* whose instances the tick changes.
C19_ScalesUpUnderLoad ==
    [][(Ticked /\ config.autoScaling) =>
        /\ \A id \in ServiceIds :
                LET before == nodeMetrics[id].instances
                    after == nodeMetrics'[id].instances
                IN  /\ after \in {before - 1, before, before + 1}
                    /\ RatLess(<<4, 5>>, CpuAtCheck(id)) =>
                            after = (IF before < 10 THEN before + 1 ELSE 10)
        /\ systemMetrics'.scalingActions - systemMetrics.scalingActions
                = Cardinality({id \in ServiceIds :
                        nodeMetrics'[id].instances
                            # nodeMetrics[id].instances})]_vars

\* Nine ticks in a row have each added an instance and the ticks after
\* them, under the same load, have left the ten
C19_Witness ==
    /\ config = ScaleUpConfig
    /\ systemMetrics.scalingActions = 9
    /\ nodeMetrics["s"].instances = 10
    /\ nodeMetrics["s"].cpuUtilization = <<1, 1>>
    /\ currentTime = 11 * config.tickRate

\* C20: the cpuUtilization of every node is within [0,1] in every state.
C20_CpuWithinUnitInterval ==
    \A id \in NodeIds(nodes) :
        /\ ~RatLess(nodeMetrics[id].cpuUtilization, <<0, 1>>)
        /\ ~RatLess(<<1, 1>>, nodeMetrics[id].cpuUtilization)

\* A tick has just scaled a service down, after a tick that scaled it up
C20_Witness ==
    /\ lastOp = "timer"
    /\ events # <<>>
    /\ events[Len(events)].type = NODE_SCALED
    /\ events[Len(events)].message[2] = "-1"
    /\ \E k \in 1..Len(events) :
            events[k].type = NODE_SCALED /\ events[k].message[2] = "+1"
    /\ \E id \in ServiceIds :
            /\ nodeMetrics[id].instances = 1
            /\ RatLess(<<3, 10>>, nodeMetrics[id].cpuUtilization)

\* ------------------------------------------------------------------------
\* Chaos, misconfigured graphs, results, latency, snapshots, the event log
\* ------------------------------------------------------------------------
\* The engine of a tick as it reaches the chaos step
BeforeChaos(E, picks, rolls) ==
    scalingStep(
        updateMetrics(
            processRequests(
                generateRequests(
                    [E EXCEPT !.currentTime = @ + config.tickRate], picks),
                config.tickRate, rolls)))

\* An event without the id the log gave it
Unnumbered(e) == [f \in DOMAIN e \ {"id"} |-> e[f]]

\* The events that are not chaos warnings, in order, without their ids
RECURSIVE Outcomes(_)
Outcomes(evs) ==
    IF evs = <<>> THEN <<>>
    ELSE IF Head(evs).type = NODE_OVERLOAD THEN Outcomes(Tail(evs))
    ELSE <<Unnumbered(Head(evs))>> \o Outcomes(Tail(evs))

\* The chaos step took X to Y and changed the event log at most
LogOnly(X, Y) ==
    /\ Y.status = X.status
    /\ Y.currentTime = X.currentTime
    /\ Y.activeRequests = X.activeRequests
    /\ Y.nodeMetrics = X.nodeMetrics
    /\ Y.systemMetrics = X.systemMetrics
    /\ Y.metricsHistory = X.metricsHistory
    /\ Y.requestIdCounter = X.requestIdCounter
    /\ Y.speed = X.speed /\ Y.intervalId = X.intervalId
    /\ Y.timers = X.timers
    /\ \/ Y.events = X.events
       \/ /\ Len(Y.events) = Len(X.events) + 1
          /\ SubSeq(Y.events, 1, Len(X.events)) = X.events
          /\ Y.events[Len(Y.events)].type = NODE_OVERLOAD

\* The tick with chaos ended in Y, the tick without it in Q
SameRun(Q, Y) ==
    /\ Y.status = Q.status
    /\ Y.currentTime = Q.currentTime
    /\ Y.metricsHistory = Q.metricsHistory
    /\ Y.activeRequests = Q.activeRequests
    /\ Y.nodeMetrics = Q.nodeMetrics
    /\ Y.systemMetrics = Q.systemMetrics
    /\ Y.requestIdCounter = Q.requestIdCounter
    /\ Outcomes(Y.events) = Outcomes(Q.events)

RollsFor(picks) == [1..(Len(activeRequests) + Len(picks)) -> Rolls]

\* C21: the chaos step of a tick changes nothing but the event log, to which
\* it appends at most one NODE_OVERLOAD event, and for the same choices in
\* generation, failure and cache rolls the tick with chaos and the tick
\* without it leave the run in the same state: the same requests, request
\* outcomes, node metrics and system counters.
C21_ChaosOnlyLogs ==
    (status = RUNNING /\ config.chaosMode) =>
        \A picks \in GenChoices : \A rolls \in RollsFor(picks) :
            \A chaos \in ChaosChoices :
                /\ LogOnly(BeforeChaos(Engine, picks, rolls),
                           chaosStep(BeforeChaos(Engine, picks, rolls),
                                     chaos))
                /\ SameRun(callback(Engine, picks, rolls, 0),
                           callback(Engine, picks, rolls, chaos))

\* No client has an edge to send a request along
NoSource ==
    \A i \in 1..Len(clientNodes) : Len(EdgesFrom(clientNodes[i].id)) = 0

\* C22: when the graph has no CLIENT node, or no CLIENT has an outgoing
\* edge, the run creates no request and emits no event of type REQUEST_SENT:
\* totalRequests stays 0 and the active set stays empty.
C22_NoSourceNoRequestSent ==
    NoSource =>
        /\ systemMetrics.totalRequests = 0
        /\ activeRequests = <<>>
        /\ requestIdCounter = 0
        /\ \A k \in 1..Len(events) : events[k].type # REQUEST_SENT

\* The chaos choices of a tick
ChaosFor == IF config.chaosMode THEN ChaosChoices ELSE {0}

\* The tick ran to its end and the callback completed the run when due
RanToEnd(T, Q) ==
    /\ ~T.threw
    /\ T.currentTime % 1000 = 0 =>
            Len(T.metricsHistory) = Len(metricsHistory) + 1
    /\ T.currentTime >= DurationMs => Q.status = COMPLETED

\* C23: an engine built with an empty node list never throws inside a tick,
\* whatever the configuration: every tick runs to its end and the run
\* reaches Completed when its duration has elapsed.
C23_EmptyGraphNeverThrows ==
    (nodes = <<>> /\ status = RUNNING) =>
        \A picks \in GenChoices : \A rolls \in RollsFor(picks) :
            \A chaos \in ChaosFor :
                RanToEnd(tick(Engine, picks, rolls, chaos),
                         callback(Engine, picks, rolls, chaos))

\* The run has ended and its result is r
EndsWith(r) ==
    /\ r.summary.totalRequests = 0
    /\ r.summary.bottlenecks = <<>>
    /\ r.summary.recommendations = <<WellMessage>>

\* C24: a run with requestsPerSecond = 0 ends with totalRequests = 0, an
\* empty bottleneck list and a recommendations list that holds the
\* "system is performing well" message and nothing else.
C24_IdleRunReportsOnlyWell ==
    (config.requestsPerSecond = 0 /\ status = COMPLETED) =>
        EndsWith(getResult(Engine))

\* ------------------------------------------------------------------------
\* Latency
\* ------------------------------------------------------------------------
\* The ticks a hop from a to b takes: the first n with n * tickRate >= the
\* hop's network and processing latency
HopTicks(a, b) ==
    (getNetworkLatency(a, b) + getProcessingLatency(getNodeById(nodes, b))
        + config.tickRate - 1) \div config.tickRate

RECURSIVE PathTicks(_)
PathTicks(path) ==
    IF Len(path) < 2 THEN 0
    ELSE HopTicks(path[1], path[2]) + PathTicks(Tail(path))

\* The events of requests that completed
CompletionEvents ==
    {k \in 1..Len(events) :
        events[k].message = <<"Request", "completed", "latency">>}

\* C25: the latency recorded for a completed request is tickRate times the
\* sum over its hops of ceil((networkLatency + processingLatency) /
\* tickRate); with one CLIENT connected to one DATABASE, dbLatency 40 and
\* tickRate 100 every request completes with a recorded latency of 100 ms.
C25_LatencyIsTicksOfHops ==
    /\ \A k \in CompletionEvents :
            events[k].args[2] =
                ToString(config.tickRate * PathTicks(events[k].sourcePath))
    /\ (config = StoreConfig /\ systemMetrics.successfulRequests > 0) =>
            systemMetrics.averageLatency = <<100, 1>>

\* The pairs of the latency matrix with the key of a hop from a to b
Configured(a, b) ==
    {kv \in config.network :
        kv[1] = <<getNodeById(nodes, a).type, getNodeById(nodes, b).type>>}

\* C26: the network latency of a hop is the value configured in the latency
\* matrix for the ordered (source type, target type) pair whenever the pair
\* is present, whatever the value (0 included), and 10 ms only when the
\* pair is absent.
C26_ConfiguredLatencyIsUsed ==
    \A a \in NodeIds(nodes) : \A b \in NodeIds(nodes) :
        /\ \A kv \in Configured(a, b) : getNetworkLatency(a, b) = kv[2]
        /\ Configured(a, b) = {} => getNetworkLatency(a, b) = 10

\* ------------------------------------------------------------------------
\* Snapshots and the event log
\* ------------------------------------------------------------------------
\* C27: a MetricsSnapshot is appended once per simulated second: at
\* currentTime the history holds floor(currentTime / 1000) snapshots, the
\* k-th of them taken in the k-th second, with increasing timestamps.
C27_OneSnapshotPerSecond ==
    /\ Len(metricsHistory) = currentTime \div 1000
    /\ \A k \in 1..Len(metricsHistory) :
            /\ metricsHistory[k].timestamp \div 1000 = k
            /\ k > 1 => metricsHistory[k - 1].timestamp
                            < metricsHistory[k].timestamp

\* What a reader of the k-th snapshot finds in it: the system metrics are
\* the snapshot's own copy, the node metrics are the engine's objects
SnapshotView(k) ==
    [timestamp |-> metricsHistory[k].timestamp,
     system |-> metricsHistory[k].system,
     nodes |-> [id \in metricsHistory[k].nodes |-> nodeMetrics[id]]]

\* C28: a MetricsSnapshot is immutable once appended: the system metrics
\* and the per-node metrics recorded in it keep their values through every
\* later step.
C28_SnapshotsKeepTheirValues ==
    [][\A k \in 1..Len(metricsHistory) :
            /\ k <= Len(metricsHistory')
            /\ SnapshotView(k)' = SnapshotView(k)]_vars

\* C29: the event log is append-only and its entries are immutable once
\* emitted: no step removes or reorders an event, and every field of an
\* emitted event, its sourcePath and targetPath included, keeps the value
\* it had at emission.
C29_EventsKeepTheirValues ==
    [][\A k \in 1..Len(events) :
            /\ k <= Len(events')
            /\ events'[k] = events[k]]_vars

\* The ids of the events of the log, in the order of the log
LogOrder == [k \in 1..Len(events) |-> events[k].id]

\* C30: event delivery is synchronous and ordered: when a call of the
\* engine has returned, every subscriber has received every event of the
\* log, in the order in which the events were appended to it, also when a
\* subscriber calls stop() from inside its callback.
C30_DeliveredInLogOrder ==
    \A l \in 1..Len(eventListeners) : received[l] = LogOrder

\* ------------------------------------------------------------------------
\* Bottlenecks and the result
\* ------------------------------------------------------------------------
\* The conditions of the analysis at a node with metrics m
ErrorsHigh(m) == RatLess(<<1, 10>>, m.errorRate)
CpuCritical(m) == RatLess(<<9, 10>>, m.cpuUtilization)
CpuHigh(m) == RatLess(<<7, 10>>, m.cpuUtilization)
QueueNearFull(m) == m.queueDepth * 10 > config.messageQueueDepth * 8

\* The severities with which the analysis reports the node
ReportedAs(nodeId) ==
    {analyzeBottlenecks(Engine)[i].severity :
        i \in {j \in 1..Len(analyzeBottlenecks(Engine)) :
                    analyzeBottlenecks(Engine)[j].nodeId = nodeId}}

\* C31: a node whose errorRate > 0.1 or cpuUtilization > 0.9 is reported
\* critical, whatever its queue depth; a node with queueDepth >
\* 0.8 * messageQueueDepth and no critical condition is reported high; a
\* node whose only issue is a cpuUtilization in (0.7, 0.9] is reported
\* medium.
C31_SeverityPrecedence ==
    \A id \in NodeIds(nodes) :
        /\ (ErrorsHigh(nodeMetrics[id]) \/ CpuCritical(nodeMetrics[id])) =>
                ReportedAs(id) = {"critical"}
        /\ (/\ QueueNearFull(nodeMetrics[id])
            /\ ~ErrorsHigh(nodeMetrics[id])
            /\ ~CpuCritical(nodeMetrics[id])) =>
                ReportedAs(id) = {"high"}
        /\ (/\ CpuHigh(nodeMetrics[id])
            /\ ~CpuCritical(nodeMetrics[id])
            /\ ~QueueNearFull(nodeMetrics[id])
            /\ ~ErrorsHigh(nodeMetrics[id])) =>
                ReportedAs(id) = {"medium"}

\* ------------------------------------------------------------------------
\* The counters of the system and of the nodes
\* ------------------------------------------------------------------------
\* The sum of the queue depths of the nodes
QueueDepthSum ==
    SumOver([id \in DOMAIN nodeMetrics |-> nodeMetrics[id].queueDepth],
            DOMAIN nodeMetrics)

\* C35: at the end of every tick SystemMetrics.errorRate equals
\* failedRequests / totalRequests if totalRequests > 0 and 0 otherwise, and
\* SystemMetrics.totalQueueDepth equals the sum of queueDepth over all
\* nodes.
C35_SystemRatesAreCurrent ==
    /\ systemMetrics.errorRate[2] > 0
    /\ systemMetrics.errorRate[1] * systemMetrics.totalRequests
            = systemMetrics.failedRequests * systemMetrics.errorRate[2]
    /\ systemMetrics.totalRequests = 0 => systemMetrics.errorRate[1] = 0
    /\ systemMetrics.totalQueueDepth = QueueDepthSum

\* A tick has ended with one of two requests failed and one message in a
\* queue
C35_Witness ==
    /\ lastOp = "timer"
    /\ systemMetrics.totalRequests = 2
    /\ systemMetrics.failedRequests = 1
    /\ systemMetrics.errorRate = <<1, 2>>
    /\ systemMetrics.totalQueueDepth = 1

\* The requests of the active set that are pending or processing
Unfinished ==
    {i \in 1..Len(activeRequests) :
        activeRequests[i].status \in {"pending", "processing"}}

\* C36: at the end of every tick totalRequests = successfulRequests +
\* failedRequests + the number of requests of the active set that are
\* pending or processing; a run that is Completed or Stopped with requests
\* in flight leaves exactly that many out of the two counters.
C36_RequestsAreConserved ==
    systemMetrics.totalRequests
        = systemMetrics.successfulRequests + systemMetrics.failedRequests
            + Cardinality(Unfinished)

\* A run has completed with one request done and one still on its way
C36_Witness ==
    /\ status = COMPLETED
    /\ systemMetrics.totalRequests = 2
    /\ systemMetrics.successfulRequests + systemMetrics.failedRequests = 1
    /\ Cardinality(Unfinished) = 1

\* The events of a type at a node, by their place in the log
EventsAt(type, nodeId) ==
    {k \in 1..Len(events) :
        events[k].type = type /\ events[k].nodeId = nodeId}

\* The depth of the queue after the enqueue that event k reports
DepthAt(k) ==
    Cardinality({j \in EventsAt(QUEUE_ENQUEUE, events[k].nodeId) : j <= k})

\* Event k is followed at once by a backlog warning for the same queue
WarnedAt(k) ==
    /\ k < Len(events)
    /\ events[k + 1].type = BACKLOG_WARNING
    /\ events[k + 1].nodeId = events[k].nodeId
    /\ events[k + 1].timestamp = events[k].timestamp

QueueIds == {id \in NodeIds(nodes) : getNodeById(nodes, id).type = QUEUE}

QueueDepthsAreEnqueues ==
    /\ \A id \in QueueIds :
            /\ nodeMetrics[id].queueDepth
                    = Cardinality(EventsAt(QUEUE_ENQUEUE, id))
            /\ nodeMetrics[id].queueDepth = nodeMetrics[id].throughput
            /\ \A k \in EventsAt(QUEUE_ENQUEUE, id) :
                    WarnedAt(k) <=>
                        DepthAt(k) * 10 > config.messageQueueDepth * 8
    /\ \A id \in NodeIds(nodes) \ QueueIds :
            /\ nodeMetrics[id].queueDepth = 0
            /\ EventsAt(QUEUE_ENQUEUE, id) = {}
            /\ EventsAt(BACKLOG_WARNING, id) = {}

ProcessedAt(nodeId) == EventsAt(REQUEST_PROCESSED, nodeId)

\* C39: the errorRate of every node is 0 and its successRate 1 in every
\* reachable state, however many requests fail at the node (a failure
\* counts in the system's failedRequests only and not in the node's
\* throughput), so the analysis never reports a high error rate.
C39_NodeErrorRateStaysZero ==
    \A id \in NodeIds(nodes) :
        /\ nodeMetrics[id].errorRate = <<0, 1>>
        /\ nodeMetrics[id].successRate = <<1, 1>>
        /\ nodeMetrics[id].throughput = Cardinality(ProcessedAt(id))
        /\ errorIssue(nodeMetrics[id]) = <<>>
        /\ systemMetrics.failedRequests
                >= Cardinality(EventsAt(REQUEST_FAILED, id))

\* A request has failed at a node that has processed none
C39_Witness ==
    \E id \in NodeIds(nodes) :
        /\ EventsAt(REQUEST_FAILED, id) # {}
        /\ nodeMetrics[id].throughput = 0
        /\ systemMetrics.failedRequests = 1
        /\ systemMetrics.errorRate = <<1, 1>>

\* The scaling events of the log
ScaledEvents == {k \in 1..Len(events) : events[k].type = NODE_SCALED}

\* C40: scalingActions equals the number of NODE_SCALED events of the log,
\* every NODE_SCALED event names a SERVICE node, and with autoScaling off
\* both stay 0.
C40_ScalingActionsAreEvents ==
    /\ systemMetrics.scalingActions = Cardinality(ScaledEvents)
    /\ \A k \in ScaledEvents : events[k].nodeId \in ServiceIds
    /\ ~config.autoScaling =>
            systemMetrics.scalingActions = 0 /\ ScaledEvents = {}

\* Two services have been scaled in one tick
C40_Witness ==
    /\ systemMetrics.scalingActions = 2
    /\ {events[k].nodeId : k \in ScaledEvents} = {"s", "t"}
    /\ \A k \in ScaledEvents : events[k].timestamp = currentTime

\* ------------------------------------------------------------------------
\* The host's store and the result
\* ------------------------------------------------------------------------
\* The store holds no result (<<>>) or one
HasResult == Len(store.result) = 1

Result == store.result[1]

\* What a reader of the store's result finds in it
ResultView ==
    [duration |-> Result.duration, summary |-> Result.summary,
     events |-> events, metricsHistory |-> metricsHistory]

\* stopSimulation has just stopped the engine and taken the result
JustStopped == lastOp = "stopSimulation" /\ store.engine

C33_ResultIsFrozen ==
    [][(/\ status = RUNNING
        /\ HasResult
        /\ lastOp' = "timer"
        /\ store'.result = store.result) =>
            ResultView' = ResultView]_vars

\* C34: the store sets its status to Completed, takes the result and opens
\* the summary only when the engine's own status is Completed, and the
\* result it holds then has the final totals of the run.
C34_CompletedOnlyWhenFinished ==
    store.status = COMPLETED =>
        /\ status = COMPLETED
        /\ store.showSummary
        /\ HasResult
        /\ Result.summary = getResult(Engine).summary

====
